---- MODULE Spec2Model ----
(***************************************************************************)
(* The netplay lobby server (internal/lobbyServer, internal/gameServer):   *)
(* the room registry, the per-connection WebSocket handler and the         *)
(* per-room supervisor tasks, as a state machine.                          *)
(*                                                                         *)
(* Every lobby connection is served by its own goroutine (wsHandler), and  *)
(* no lock guards the registry; a handler that first reads shared state    *)
(* and later writes it is therefore two steps here (the read part, then    *)
(* the write part), and handlers of different connections interleave       *)
(* between the two.  Time is abstract: a comparison of a time stamp with   *)
(* the clock may go either way.  What a handler writes to the sockets is   *)
(* an operator of the state and the request (the ...Sends operators).      *)
(*                                                                         *)
(* The input relay of src/server.cpp is a program of its own; its state    *)
(* (inputs, buttons) and the datagrams it reads and writes are the last    *)
(* five variables, which no lobby handler touches.                         *)
(***************************************************************************)
EXTENDS Integers, Sequences, FiniteSets, TLC

(* ------------------------------ bounds -------------------------------- *)
NConns == 2          \* lobby connections accepted during a run
MaxObjs == 2         \* GameServer objects allocated during a run
MaxGames == 2        \* the --max-games option of the run
MaxBegins == 2       \* begin_game broadcasts per room
MaxRestarts == 1     \* restarts of one room's listeners by MonitorActivity
MaxDatagrams == 4    \* datagrams the relay reads during a run
NSlots == 2          \* player slots named by the datagrams of a run
FirstRequests == 40  \* requests of a game that a run of SpecFrames may start after

(* ------------------------- program constants -------------------------- *)
Accepted == 0
BadPassword == 1
MismatchVersion == 2
RoomFull == 3
DuplicateName == 4
RoomDeleted == 5
BadName == 6
BadEmulator == 7
BadAuth == 8
Other == 9
StatusDesync == 1
DefaultBasePort == 45000
MaxSeats == 4
NetplayAPIVersion == "MPN-4"

BasePort == DefaultBasePort

(* --------------------------- input domains ---------------------------- *)
Conns == 1..NConns
Objs == 1..MaxObjs
RoomNames == {"alpha", "beta"}
\* Player names are only compared for equality, and only inside one room: a
\* joiner uses the empty name, a name of the room, or the first name that the
\* room does not have yet.
NameOrder == <<"pA", "pB", "pC", "pD", "pE">>
PlayerNames == {NameOrder[i] : i \in 1..Len(NameOrder)}
Emulators == {"m64p"}
GameNames == {"Mario Party 2", "Mario Party 3"}
Passwords == {"", "pw"}
AuthTimes == {"x", "old", "now"}     \* not a number, outside 15 min, inside
Secrets == {"", "s3cret"}            \* "" is an unset environment variable
Ports == (BasePort + 1)..(BasePort + MaxGames + 1)
Slots == 0..(NSlots - 1)

VARIABLES
    GameServers,    \* LobbyServer.GameServers: room name -> object, 0 = no entry
    gs,             \* the GameServer objects, by object id
    tasks,          \* the goroutines running on each object
    boundTCP,       \* TCP ports bound by listeners of this process
    boundUDP,       \* UDP ports bound by listeners of this process
    EnableAuth,     \* LobbyServer.EnableAuth
    authEnv,        \* the value of <EMULATOR>_AUTH in the environment
    authenticated,  \* wsHandler's local flag, per connection
    pc,             \* where each connection's wsHandler is
    pending,        \* the locals of a handler between its two steps
    inputs,         \* Server::inputs, per player: counter -> (keys, plugin)
    buttons,        \* Server::buttons, per player: the queue of (keys, plugin)
    datagrams,      \* how many datagrams the relay has read
    received,       \* the datagram the relay read last
    written,        \* the datagram it wrote in answer, <<>> when it wrote none
    operands,       \* the counters v and w of a call of uintLarger
    larger          \* <<what the call returned>>, <<>> before it

vars == <<GameServers, gs, tasks, boundTCP, boundUDP, EnableAuth, authEnv,
          authenticated, pc, pending, inputs, buttons, datagrams, received, written,
          operands, larger>>

\* The state of the lobby server, and the state of the relay.
lobby == <<GameServers, gs, tasks, boundTCP, boundUDP, EnableAuth, authEnv,
           authenticated, pc, pending>>
relay == <<inputs, buttons, datagrams, received, written>>
counters == <<operands, larger>>

(* ------------------------------ helpers ------------------------------- *)
Min(S) == CHOOSE x \in S : \A y \in S : x <= y

Msg(to, type, accept, port) ==
    [to |-> to, type |-> type, accept |-> accept, port |-> port]

Closed == {c \in Conns : pc[c] = "closed"}

\* sendData: a write on a connection that is closed fails and is only logged.
sendData(msgs) == {m \in msgs : m.to \notin Closed}

NoRoom ==
    [used |-> FALSE, Name |-> "", Port |-> 0, Password |-> "", ClientSha |-> "",
     MD5 |-> "", Emulator |-> "", GameName |-> "", PlayerName |-> "",
     Players |-> {}, Running |-> FALSE,
     TCPListener |-> "nil", UDPListener |-> "nil",
     StartTime |-> "zero", begun |-> {}, restarts |-> 0,
     Registrations |-> {}, PlayerAlive |-> {}, Status |-> 0,
     Buffer |-> 0, BufferSize |-> [i \in 0..3 |-> 0], BufferHealth |-> [i \in 0..3 |-> 0]]

NoTasks == [monitor |-> 0, restart |-> 0, watch |-> 0, sweep |-> 0]

NoPending ==
    [g |-> 0, RoomName |-> "", PlayerName |-> "", Password |-> "", GameName |-> "",
     number |-> 0]

Seat(name, number, socket) == [Name |-> name, Number |-> number, Socket |-> socket]

\* g.Players[name] = client: a Go map assignment replaces the entry of that key.
PutSeat(players, seat) == {p \in players : p.Name # seat.Name} \cup {seat}

Names(players) == {p.Name : p \in players}
Numbers(players) == {p.Number : p \in players}

Registered == {n \in RoomNames : GameServers[n] # 0}
Rooms == {GameServers[n] : n \in Registered}

\* findGameServer: a registered room with that port (the first one the map
\* iteration meets), 0 for nil.
findGameServer(port) ==
    IF \E o \in Rooms : gs[o].Port = port
    THEN {o \in Rooms : gs[o].Port = port}
    ELSE {0}

(* ------------------------------ requests ------------------------------ *)
Sha256Hex(authTime, secret) == <<"sha256", authTime, secret>>

\* The auth values tried: the digest of "now" with each secret, and a digest
\* of something else.
AuthCodes == {Sha256Hex("now", s) : s \in Secrets} \cup {Sha256Hex("", "?")}

CreateRequests ==
    [NetplayVersion : {NetplayAPIVersion, "MPN-3"},
     RoomName : RoomNames \cup {""},
     PlayerName : {"pA", ""},
     Emulator : Emulators \cup {""},
     GameName : GameNames,
     Password : Passwords,
     ClientSha : {"1111"},
     MD5 : {"deadbeef"},
     AuthTime : AuthTimes,
     Auth : AuthCodes]

GetRoomsRequests ==
    [NetplayVersion : {NetplayAPIVersion, "MPN-3"},
     Emulator : Emulators \cup {""},
     AuthTime : AuthTimes,
     Auth : AuthCodes]

JoinRequests ==
    [Port : Ports,
     PlayerName : PlayerNames \cup {""},
     Password : Passwords,
     ClientSha : {"1111", "2222"},
     MD5 : {"deadbeef", "0badc0de"}]

\* The requests the connections send in a run: the well-formed ones, and for
\* each field one request that is wrong in that field only.  A request that a
\* check rejects changes no state.
GoodCreate ==
    [NetplayVersion |-> NetplayAPIVersion, RoomName |-> "alpha", PlayerName |-> "pA",
     Emulator |-> "m64p", GameName |-> "Mario Party 2", Password |-> "",
     ClientSha |-> "1111", MD5 |-> "deadbeef",
     AuthTime |-> "now", Auth |-> Sha256Hex("now", "s3cret")]

CreateInputs ==
    {GoodCreate,
     [GoodCreate EXCEPT !.RoomName = "beta", !.Password = "pw",
                        !.GameName = "Mario Party 3"]}
    \cup {[GoodCreate EXCEPT !.NetplayVersion = "MPN-3"],
          [GoodCreate EXCEPT !.RoomName = ""],
          [GoodCreate EXCEPT !.PlayerName = ""],
          [GoodCreate EXCEPT !.Emulator = ""],
          [GoodCreate EXCEPT !.AuthTime = "x"],
          [GoodCreate EXCEPT !.AuthTime = "old"],
          [GoodCreate EXCEPT !.Auth = Sha256Hex("now", "")],
          [GoodCreate EXCEPT !.Auth = Sha256Hex("", "?")]}

GoodGetRooms ==
    [NetplayVersion |-> NetplayAPIVersion, Emulator |-> "m64p",
     AuthTime |-> "now", Auth |-> Sha256Hex("now", "s3cret")]

GetRoomsInputs ==
    {GoodGetRooms,
     [GoodGetRooms EXCEPT !.Emulator = "simple64"],
     [GoodGetRooms EXCEPT !.NetplayVersion = "MPN-3"],
     [GoodGetRooms EXCEPT !.Emulator = ""],
     [GoodGetRooms EXCEPT !.Auth = Sha256Hex("now", "")]}

\* The first name of NameOrder that is not in names.
FreshName(names) ==
    LET free == {i \in 1..Len(NameOrder) : NameOrder[i] \notin names}
    IN  IF free = {} THEN "" ELSE NameOrder[Min(free)]

\* The names of room g and of the joins to it that are under way.
NamesAt(g) ==
    IF g = 0 THEN {}
    ELSE Names(gs[g].Players)
         \cup {pending[c].PlayerName : c \in {d \in Conns : pc[d] = "join" /\ pending[d].g = g}}

JoinNames(port) ==
    LET known == UNION {NamesAt(g) : g \in findGameServer(port)}
    IN  {""} \cup known \cup {FreshName(known)}

GoodJoin(port, name, password) ==
    [Port |-> port, PlayerName |-> name, Password |-> password,
     ClientSha |-> "1111", MD5 |-> "deadbeef"]

JoinInputs ==
    {GoodJoin(port, name, pw) : port \in Ports, name \in PlayerNames \cup {""}, pw \in Passwords}
    \cup {[GoodJoin(port, "", "") EXCEPT !.ClientSha = "2222"] : port \in Ports}
    \cup {[GoodJoin(port, "", "") EXCEPT !.MD5 = "0badc0de"] : port \in Ports}

(* ----------------------------- validateAuth --------------------------- *)
Getenv(emulator) == IF emulator \in Emulators THEN authEnv ELSE ""

\* validateAuth without the test for an empty secret.
validateAuth_EmptySecret(m) ==
    IF ~EnableAuth THEN TRUE
    ELSE IF m.AuthTime = "x" THEN FALSE
    ELSE IF m.AuthTime = "old" THEN FALSE
    ELSE m.Auth = Sha256Hex(m.AuthTime, Getenv(m.Emulator))

validateAuth(m) ==
    IF ~EnableAuth THEN TRUE
    ELSE IF m.AuthTime = "x" THEN FALSE          \* strconv.ParseInt fails
    ELSE IF m.AuthTime = "old" THEN FALSE        \* more than 15 minutes off
    ELSE IF Getenv(m.Emulator) = "" THEN FALSE
    ELSE m.Auth = Sha256Hex(m.AuthTime, Getenv(m.Emulator))

(* ------------------------- the network servers ------------------------ *)
\* createTCPServer: the lowest port of basePort+1 .. basePort+maxGames on which
\* a TCP listener can be bound, 0 when there is none.
createTCPServer(basePort, maxGames) ==
    LET free == {p \in (basePort + 1)..(basePort + maxGames) : p \notin boundTCP}
    IN  IF free = {} THEN 0 ELSE Min(free)

\* createUDPServer: binds the UDP socket on the port of the TCP listener.
createUDPServer(port) == port \notin boundUDP

\* CreateNetworkServers on object g: the port returned (0 = failure), the
\* object afterwards and the ports bound afterwards.
CreateNetworkServers(g, basePort, maxGames) ==
    LET port == createTCPServer(basePort, maxGames)
    IN  IF port = 0
        THEN [port |-> 0, g |-> g, tcp |-> boundTCP, udp |-> boundUDP]
        ELSE IF ~createUDPServer(port)
        THEN [port |-> 0,
              g |-> [g EXCEPT !.Port = port, !.TCPListener = "closed"],
              tcp |-> boundTCP, udp |-> boundUDP]
        ELSE [port |-> port,
              g |-> [g EXCEPT !.Port = port, !.TCPListener = "open",
                              !.UDPListener = "open"],
              tcp |-> boundTCP \cup {port}, udp |-> boundUDP \cup {port}]

\* CloseServers that leaves Running as it is.
CloseServers_KeepsRunning(g) ==
    [g EXCEPT !.UDPListener = "nil", !.TCPListener = "nil"]

\* CloseServers: closes and forgets both listeners, clears Running.
CloseServers(g) ==
    [g EXCEPT !.UDPListener = "nil", !.TCPListener = "nil", !.Running = FALSE]

\* Close() on a listener: no error ("") for one that is open, and the
\* error of the net package for one that was closed before.
ListenerClose(l) == IF l = "open" THEN "" ELSE "use of closed network connection"

\* isConnClosed that takes no error for that of a closed connection.
isConnClosed_Never(err) == FALSE

\* isConnClosed: err is the error of a connection closed before.
isConnClosed(err) == err # "" /\ err = "use of closed network connection"

\* The errors CloseServers logs: those of the Close() of a listener that is
\* not nil, unless isConnClosed.
CloseServersErrors(g) ==
    {err \in {ListenerClose(l) : l \in {g.UDPListener, g.TCPListener} \ {"nil"}} :
        err # "" /\ ~isConnClosed(err)}

\* The ports that closing the listeners of g gives back.
ClosedTCP(g) == IF g.TCPListener = "open" THEN {g.Port} ELSE {}
ClosedUDP(g) == IF g.UDPListener = "open" THEN {g.Port} ELSE {}

(* --------------------------- object lifetime -------------------------- *)
\* A GameServer object is referenced by the registry G, by its own tasks T
\* and by the handlers P that hold it in a local variable.
Referenced(o, G, T, P) ==
    \/ \E n \in RoomNames : G[n] = o
    \/ T[o] # NoTasks
    \/ \E c \in Conns : P[c].g = o

\* The objects after the step: one that nothing references any more is
\* garbage, and the runtime frees it (its identity is not given out again).
Collect(objs) ==
    [o \in Objs |-> IF Referenced(o, GameServers', tasks', pending') THEN objs[o] ELSE [NoRoom EXCEPT !.used = objs[o].used]]

(* -------------------------------- Init -------------------------------- *)
InitLobby ==
    /\ GameServers = [n \in RoomNames |-> 0]
    /\ gs = [o \in Objs |-> NoRoom]
    /\ tasks = [o \in Objs |-> NoTasks]
    /\ boundTCP = {}
    /\ boundUDP = {}
    /\ EnableAuth \in BOOLEAN
    /\ authEnv \in Secrets
    /\ (~EnableAuth => authEnv = "")
    /\ authenticated = [c \in Conns |-> FALSE]
    /\ pc = [c \in Conns |-> "read"]
    /\ pending = [c \in Conns |-> NoPending]

NoComparison ==
    /\ operands = <<<<0, 0>>, <<0, 0>>>>
    /\ larger = <<>>

Init ==
    /\ InitLobby
    /\ NoComparison
    /\ inputs = [i \in Slots |-> <<>>]
    /\ buttons = [i \in Slots |-> <<>>]
    /\ datagrams = 0
    /\ received = <<>>
    /\ written = <<>>

config == <<EnableAuth, authEnv>>

(* ----------------------------- create_room ---------------------------- *)
\* create_room with the version test in front of the registry lookup.
CreateRoomCheck_VersionFirst(m) ==
    IF m.NetplayVersion # NetplayAPIVersion THEN MismatchVersion
    ELSE IF m.RoomName \in Registered THEN DuplicateName
    ELSE IF m.RoomName = "" THEN BadName
    ELSE IF m.PlayerName = "" THEN BadName
    ELSE IF m.Emulator = "" THEN BadEmulator
    ELSE IF ~validateAuth(m) THEN BadAuth
    ELSE Accepted

\* The if/else-if chain of the handler: the accept code of a request, or
\* Accepted when the handler goes on to create the servers.
CreateRoomCheck(m) ==
    IF m.RoomName \in Registered THEN DuplicateName
    ELSE IF m.NetplayVersion # NetplayAPIVersion THEN MismatchVersion
    ELSE IF m.RoomName = "" THEN BadName
    ELSE IF m.PlayerName = "" THEN BadName
    ELSE IF m.Emulator = "" THEN BadEmulator
    ELSE IF ~validateAuth(m) THEN BadAuth
    ELSE Accepted

\* What the first step writes: the reply of a failing check.
CreateRoomSends(c, m) ==
    IF CreateRoomCheck(m) # Accepted
    THEN sendData({Msg(c, "reply_create_room", CreateRoomCheck(m), 0)})
    ELSE {}

\* First step: the checks.  A failing check is answered at once.
CreateRoom(c, m) ==
    /\ pc[c] = "read"
    /\ IF CreateRoomCheck(m) # Accepted
       THEN UNCHANGED <<authenticated, pc, pending>>
       ELSE /\ authenticated' = [authenticated EXCEPT ![c] = TRUE]
            /\ pc' = [pc EXCEPT ![c] = "create"]
            /\ pending' = [pending EXCEPT ![c] =
                   [NoPending EXCEPT !.RoomName = m.RoomName,
                                     !.PlayerName = m.PlayerName,
                                     !.Password = m.Password,
                                     !.GameName = m.GameName]]
    /\ UNCHANGED <<GameServers, gs, tasks, boundTCP, boundUDP, config, relay, counters>>

FreeObjs == {o \in Objs : ~gs[o].used}

\* The room a create request makes on the servers that CreateNetworkServers
\* returned.
NewRoom(c, m, g) ==
    [g EXCEPT !.used = TRUE,
              !.Name = m.RoomName,
              !.Password = m.Password,
              !.ClientSha = "1111",
              !.MD5 = "deadbeef",
              !.Emulator = "m64p",
              !.GameName = m.GameName,
              !.PlayerName = m.PlayerName,
              !.Players = {Seat(m.PlayerName, 0, c)}]

\* What the second step writes.
CreateRoomFinishSends(c) ==
    LET port == CreateNetworkServers(NoRoom, BasePort, MaxGames).port
    IN  sendData({Msg(c, "reply_create_room",
                      IF port = 0 THEN Other ELSE Accepted, port)})

\* Second step: CreateNetworkServers, the room's fields, the registry entry
\* and the reply.
CreateRoomFinish(c) ==
    /\ pc[c] = "create"
    /\ pending' = [pending EXCEPT ![c] = NoPending]
    /\ LET m == pending[c]
           r == CreateNetworkServers(NoRoom, BasePort, MaxGames)
       IN  IF r.port = 0
           THEN UNCHANGED <<GameServers, gs, tasks, boundTCP, boundUDP>>
           ELSE /\ FreeObjs # {}
                /\ LET o == Min(FreeObjs)
                   IN  /\ tasks' = [tasks EXCEPT ![o].monitor = 1]
                       /\ GameServers' = [GameServers EXCEPT ![m.RoomName] = o]
                       /\ gs' = Collect([gs EXCEPT ![o] = NewRoom(c, m, r.g)])
                       /\ boundTCP' = r.tcp
                       /\ boundUDP' = r.udp
    /\ pc' = [pc EXCEPT ![c] = "read"]
    /\ UNCHANGED <<config, relay, counters, authenticated>>

(* ----------------------------- get_rooms ------------------------------ *)
GetRoomsCheck(m) ==
    IF m.NetplayVersion # NetplayAPIVersion THEN MismatchVersion
    ELSE IF m.Emulator = "" THEN BadEmulator
    ELSE IF ~validateAuth(m) THEN BadAuth
    ELSE Accepted

\* The reply_get_rooms message for the room v that the registry has under
\* the name i (its features are carried like its game name and are left out
\* here).
RoomMsg(to, i, v) ==
    [to |-> to, type |-> "reply_get_rooms", accept |-> Accepted, port |-> v.Port,
     RoomName |-> i, MD5 |-> v.MD5, GameName |-> v.GameName,
     PlayerName |-> v.PlayerName, Protected |-> (v.Password # "")]

\* get_rooms that lists the running rooms too.
GetRoomsSends_ListsRunning(c, m) ==
    IF GetRoomsCheck(m) # Accepted THEN {}
    ELSE sendData({RoomMsg(c, i, gs[GameServers[i]]) :
                      i \in {n \in Registered : gs[GameServers[n]].Emulator = m.Emulator}})

\* One reply for each entry of the registry whose room is not running and has
\* the emulator of the request; a failing check writes nothing.
GetRoomsSends(c, m) ==
    IF GetRoomsCheck(m) # Accepted THEN {}
    ELSE sendData({RoomMsg(c, i, gs[GameServers[i]]) :
                      i \in {n \in Registered : /\ ~gs[GameServers[n]].Running
                                                /\ gs[GameServers[n]].Emulator = m.Emulator}})

GetRooms(c, m) ==
    /\ pc[c] = "read"
    /\ authenticated' = IF GetRoomsCheck(m) = Accepted
                        THEN [authenticated EXCEPT ![c] = TRUE]
                        ELSE authenticated
    /\ UNCHANGED <<GameServers, gs, tasks, boundTCP, boundUDP, config, relay, counters, pc, pending>>

(* ------------------------------ join_room ----------------------------- *)
\* The gate left open.
IsAuthenticated_Open(c) == TRUE

\* The gate of every request except create_room, get_rooms and version.
IsAuthenticated(c) == authenticated[c]

\* join_room with the password test of the claim as stated.
JoinRoomCheck_AnyMismatch(g, m) ==
    IF g = 0 THEN RoomDeleted
    ELSE IF gs[g].Password # m.Password THEN BadPassword
    ELSE IF gs[g].ClientSha # m.ClientSha THEN MismatchVersion
    ELSE IF gs[g].MD5 # m.MD5 THEN MismatchVersion
    ELSE IF Cardinality(gs[g].Players) >= MaxSeats THEN RoomFull
    ELSE IF m.PlayerName = "" THEN BadName
    ELSE IF m.PlayerName \in Names(gs[g].Players) THEN DuplicateName
    ELSE Accepted

\* The if/else-if chain of the handler on the room g that findGameServer
\* returned (0 = nil).
JoinRoomCheck(g, m) ==
    IF g = 0 THEN RoomDeleted
    ELSE IF gs[g].Password # "" /\ gs[g].Password # m.Password THEN BadPassword
    ELSE IF gs[g].ClientSha # m.ClientSha THEN MismatchVersion
    ELSE IF gs[g].MD5 # m.MD5 THEN MismatchVersion
    ELSE IF Cardinality(gs[g].Players) >= MaxSeats THEN RoomFull
    ELSE IF m.PlayerName = "" THEN BadName
    ELSE IF m.PlayerName \in Names(gs[g].Players) THEN DuplicateName
    ELSE Accepted

\* The search for a seat number, started one above the number of seats.
SeatNumber_FromCount(players) ==
    LET good == {n \in 0..(MaxSeats - 1) : n \notin Numbers(players) /\ n >= Cardinality(players)}
    IN  IF good = {} THEN MaxSeats ELSE Min(good)

\* The loop over number = 0 .. 3 that stops at the first number no seat has;
\* it ends with number = 4 when there is none.
SeatNumber(players) ==
    LET good == {n \in 0..(MaxSeats - 1) : n \notin Numbers(players)}
    IN  IF good = {} THEN MaxSeats ELSE Min(good)

JoinRoomSends(c, m, g) ==
    IF ~IsAuthenticated(c) \/ JoinRoomCheck(g, m) = Accepted THEN {}
    ELSE sendData({Msg(c, "reply_join_room", JoinRoomCheck(g, m), 0)})

\* A rejected join that seats the player all the same.
JoinRoomReject_Seats(c, m, g) ==
    /\ g # 0
    /\ gs' = [gs EXCEPT ![g].Players = PutSeat(@, Seat(m.PlayerName, 3, c))]
    /\ UNCHANGED <<pc, pending>>

\* What a join does when a check failed: the reply only.
JoinRoomReject(c, m, g) == UNCHANGED <<gs, pc, pending>>

\* First step: find the room, the checks and the seat number.
JoinRoom(c, m) ==
    /\ pc[c] = "read"
    /\ IF ~IsAuthenticated(c)
       THEN UNCHANGED <<gs, pc, pending>>
       ELSE \E g \in findGameServer(m.Port) :
               IF JoinRoomCheck(g, m) # Accepted
               THEN JoinRoomReject(c, m, g)
               ELSE /\ pc' = [pc EXCEPT ![c] = "join"]
                    /\ pending' = [pending EXCEPT ![c] =
                           [NoPending EXCEPT !.g = g,
                                             !.PlayerName = m.PlayerName,
                                             !.number = SeatNumber(gs[g].Players)]]
                    /\ UNCHANGED gs
    /\ UNCHANGED <<GameServers, tasks, boundTCP, boundUDP, config, relay, counters, authenticated>>

JoinRoomFinishSends(c) ==
    sendData({Msg(c, "reply_join_room", Accepted, gs[pending[c].g].Port)})

\* Second step: the seat is written under PlayersMutex, then the reply.
JoinRoomFinish(c) ==
    /\ pc[c] = "join"
    /\ pc' = [pc EXCEPT ![c] = "read"]
    /\ pending' = [pending EXCEPT ![c] = NoPending]
    /\ UNCHANGED <<GameServers, tasks, boundTCP, boundUDP, config, relay, counters, authenticated>>
    /\ LET g == pending[c].g
       IN  gs' = Collect([gs EXCEPT ![g].Players =
                      PutSeat(@, Seat(pending[c].PlayerName, pending[c].number, c))])

(* ------------------ request_players, chat, motd, version -------------- *)
ReplyPlayers(to, names) == [to |-> to, type |-> "reply_players", player_names |-> names]

\* The PlayerNames arrays that the first loop of updatePlayers can end with:
\* make([]string, 4), then PlayerNames[v.Number] = name for every seat in the
\* order of the map iteration, so that of several seats with one number the
\* last one met stays.  Entry k of the code is entry k + 1 here.
PlayerNamesArrays(players) ==
    {a \in [1..MaxSeats -> Names(players) \cup {""}] :
        \A k \in 0..(MaxSeats - 1) :
           IF k \in Numbers(players)
           THEN \E p \in players : p.Number = k /\ a[k + 1] = p.Name
           ELSE a[k + 1] = ""}

\* updatePlayers: the player list goes to every seat of the room.
updatePlayers(players) ==
    sendData({ReplyPlayers(p.Socket, a) : p \in players, a \in PlayerNamesArrays(players)})

RequestPlayersSends(c, port, g) ==
    IF ~IsAuthenticated(c) \/ g = 0 THEN {} ELSE updatePlayers(gs[g].Players)

RequestPlayers(c, port) ==
    /\ pc[c] = "read"
    /\ UNCHANGED vars

ChatMessageSends(c, port, g) ==
    IF ~IsAuthenticated(c) \/ g = 0 THEN {}
    ELSE sendData({Msg(p.Socket, "reply_chat_message", 0, 0) : p \in gs[g].Players})

ChatMessage(c, port) ==
    /\ pc[c] = "read"
    /\ UNCHANGED vars

RequestMotdSends(c) ==
    IF ~IsAuthenticated(c) THEN {} ELSE sendData({Msg(c, "reply_motd", 0, 0)})

RequestMotd(c) ==
    /\ pc[c] = "read"
    /\ UNCHANGED vars

RequestVersionSends(c) == sendData({Msg(c, "reply_version", 0, 0)})

RequestVersion(c) ==
    /\ pc[c] = "read"
    /\ UNCHANGED vars

(* ------------------------------ begin_game ---------------------------- *)
\* The handlers that are between the two steps of a begin_game for g.
Beginning(g) == {d \in Conns : pc[d] = "begin" /\ pending[d].g = g}

\* First step: find the room and test g.Running.
BeginGame(c, port) ==
    /\ pc[c] = "read"
    /\ IF ~IsAuthenticated(c)
       THEN UNCHANGED <<pc, pending>>
       ELSE \E g \in findGameServer(port) :
               IF g = 0 \/ gs[g].Running
               THEN UNCHANGED <<pc, pending>>
               ELSE /\ tasks[g].watch + Cardinality(Beginning(g)) < MaxBegins
                    /\ pc' = [pc EXCEPT ![c] = "begin"]
                    /\ pending' = [pending EXCEPT ![c] = [NoPending EXCEPT !.g = g]]
    /\ UNCHANGED <<GameServers, gs, tasks, boundTCP, boundUDP, config, relay, counters, authenticated>>

BeginGameFinishSends(c) ==
    LET g == gs[pending[c].g]
    IN  sendData({Msg(p.Socket, "reply_begin_game", 0, g.Port) : p \in g.Players})

\* Second step: Running is set, the watcher (with the sweep) is started and
\* reply_begin_game goes to every seat.  begun keeps the connections that
\* were sent a reply_begin_game of this room.
BeginGameFinish(c) ==
    /\ pc[c] = "begin"
    /\ LET g == pending[c].g
           to == {m.to : m \in BeginGameFinishSends(c)}
       IN  /\ gs' = [gs EXCEPT ![g].Running = TRUE, ![g].StartTime = "set",
                               ![g].begun = @ \cup to]
           /\ tasks' = [tasks EXCEPT ![g].watch = @ + 1, ![g].sweep = @ + 1]
    /\ pc' = [pc EXCEPT ![c] = "read"]
    /\ pending' = [pending EXCEPT ![c] = NoPending]
    /\ UNCHANGED <<GameServers, boundTCP, boundUDP, config, relay, counters, authenticated>>

(* ------------------------- a connection closes ------------------------ *)
SeatsOf(c, players) == {p \in players : p.Socket = c}

\* The rooms the EOF path empties and so closes and deletes.
EmptiedBy(c) ==
    {n \in Registered : /\ ~gs[GameServers[n]].Running
                        /\ gs[GameServers[n]].Players \ SeatsOf(c, gs[GameServers[n]].Players) = {}}

\* Receive returns io.EOF: in every room that is not running the seats of this
\* socket are deleted, and such a room that has no seat left is closed and
\* deleted from the registry.
Disconnect(c) ==
    /\ pc[c] = "read"
    /\ GameServers' = [n \in RoomNames |-> IF n \in EmptiedBy(c) THEN 0 ELSE GameServers[n]]
    /\ boundTCP' = boundTCP \ UNION {ClosedTCP(gs[GameServers[n]]) : n \in EmptiedBy(c)}
    /\ boundUDP' = boundUDP \ UNION {ClosedUDP(gs[GameServers[n]]) : n \in EmptiedBy(c)}
    /\ pc' = [pc EXCEPT ![c] = "closed"]
    /\ authenticated' = [authenticated EXCEPT ![c] = FALSE]
    /\ UNCHANGED <<tasks, config, relay, counters, pending>>
    /\ gs' = Collect([o \in Objs |->
                IF o \in Rooms /\ ~gs[o].Running
                THEN LET left == gs[o].Players \ SeatsOf(c, gs[o].Players)
                     IN  IF left = {}
                         THEN [CloseServers(gs[o]) EXCEPT !.Players = left]
                         ELSE [gs[o] EXCEPT !.Players = left]
                ELSE gs[o]])

\* handlePlayerDrop, after a read error "forcibly closed by the remote host":
\* the first seat of this socket that the iteration meets is deleted, whether
\* its room is running or not; a room left with no seat is deleted from the
\* registry (removePort finds nothing in ActivePorts, which nothing fills).
handlePlayerDrop(c) ==
    IF \A o \in Rooms : SeatsOf(c, gs[o].Players) = {}
    THEN UNCHANGED <<GameServers, gs>>
    ELSE \E n \in Registered : \E p \in SeatsOf(c, gs[GameServers[n]].Players) :
            LET o == GameServers[n]
            IN  /\ GameServers' = IF gs[o].Players = {p}
                                  THEN [GameServers EXCEPT ![n] = 0]
                                  ELSE GameServers
                /\ gs' = Collect([gs EXCEPT ![o].Players = @ \ {p}])

PlayerDrop(c) ==
    /\ pc[c] = "read"
    /\ pc' = [pc EXCEPT ![c] = "closed"]
    /\ authenticated' = [authenticated EXCEPT ![c] = FALSE]
    /\ UNCHANGED <<tasks, boundTCP, boundUDP, config, relay, counters, pending>>
    /\ handlePlayerDrop(c)

(* ---------------------------- room tasks ------------------------------ *)
\* MonitorActivity, one pass of its loop.  It ends when Running is false or
\* when LastActivity or LastPacketReceived is too old (then it closes the
\* servers first); with no seat left it closes the servers and goes on to
\* restart them; otherwise it sleeps.
MonitorActivity(o) ==
    /\ tasks[o].monitor > 0
    /\ UNCHANGED <<GameServers, config, relay, counters, authenticated, pc, pending>>
    /\ \/ /\ ~gs[o].Running
          /\ tasks' = [tasks EXCEPT ![o].monitor = @ - 1]
          /\ gs' = Collect(gs)
          /\ UNCHANGED <<boundTCP, boundUDP>>
       \/ /\ gs[o].Running
          /\ tasks' = [tasks EXCEPT ![o].monitor = @ - 1]
          /\ gs' = Collect([gs EXCEPT ![o] = CloseServers(@)])
          /\ boundTCP' = boundTCP \ ClosedTCP(gs[o])
          /\ boundUDP' = boundUDP \ ClosedUDP(gs[o])
       \/ /\ gs[o].Running
          /\ gs[o].Players = {}
          /\ gs[o].restarts < MaxRestarts
          /\ tasks' = [tasks EXCEPT ![o].monitor = @ - 1, ![o].restart = @ + 1]
          /\ gs' = [gs EXCEPT ![o] = [CloseServers(@) EXCEPT !.restarts = @ + 1]]
          /\ boundTCP' = boundTCP \ ClosedTCP(gs[o])
          /\ boundUDP' = boundUDP \ ClosedUDP(gs[o])

\* MonitorActivity after its ten seconds: CreateNetworkServers(g.Port, 1, ...),
\* which starts one more MonitorActivity when it succeeds; this one sleeps and
\* then tests Running again.
MonitorRestart(o) ==
    /\ tasks[o].restart > 0
    /\ LET r == CreateNetworkServers(gs[o], gs[o].Port, 1)
       IN  /\ gs' = [gs EXCEPT ![o] = r.g]
           /\ boundTCP' = r.tcp
           /\ boundUDP' = r.udp
           /\ tasks' = [tasks EXCEPT ![o].restart = @ - 1,
                                     ![o].monitor = @ + (IF r.port = 0 THEN 1 ELSE 2)]
    /\ UNCHANGED <<GameServers, config, relay, counters, authenticated, pc, pending>>

\* watchGameServer(name, g): once Running is false it deletes the registry
\* entry of that name and ends.
watchGameServer(o) ==
    /\ tasks[o].watch > 0
    /\ ~gs[o].Running
    /\ GameServers' = [GameServers EXCEPT ![gs[o].Name] = 0]
    /\ tasks' = [tasks EXCEPT ![o].watch = @ - 1]
    /\ UNCHANGED <<boundTCP, boundUDP, config, relay, counters, authenticated, pc, pending>>
    /\ gs' = Collect(gs)

\* Status is a byte of flags: bit k of it, and Status |= (0x1 << k).
HasBit(status, k) == (status \div (2 ^ k)) % 2 = 1

SetBit(status, k) == IF HasBit(status, k) THEN status ELSE status + 2 ^ k

\* Status & StatusDesync # 0 (StatusDesync is the lowest bit).
Desync(status) == (status \div StatusDesync) % 2 = 1

\* The body of the sweep's loop that finds every slot alive.
ManageSlot_AlwaysActive(st, i) ==
    [st EXCEPT !.playersActive = TRUE, !.g.PlayerAlive = @ \ {i}]

\* The body of the sweep's loop that sets no Status bit.
ManageSlot_NoStatus(st, i) ==
    LET g == st.g
        next == IF i \in g.Registrations /\ i \in g.PlayerAlive
                THEN [st EXCEPT !.playersActive = TRUE]
                ELSE IF i \in g.Registrations
                THEN [st EXCEPT !.g.Registrations = @ \ {i}]
                ELSE st
    IN  [next EXCEPT !.g.PlayerAlive = @ \ {i}]

\* The body of the sweep's loop that assigns the bit of the slot to Status.
ManageSlot_Assigns(st, i) ==
    LET g == st.g
        next == IF i \in g.Registrations /\ i \in g.PlayerAlive
                THEN [st EXCEPT !.playersActive = TRUE]
                ELSE IF i \in g.Registrations
                THEN [st EXCEPT !.g.Status = 2 ^ (i + 1),
                                !.g.Registrations = @ \ {i}]
                ELSE st
    IN  [next EXCEPT !.g.PlayerAlive = @ \ {i}]

\* The body of the loop of ManagePlayers for slot i: a registered slot that
\* is alive makes playersActive true; a registered slot that is not gets its
\* bit in Status and loses its registration; PlayerAlive[i] becomes false.
ManageSlot(st, i) ==
    LET g == st.g
        next == IF i \in g.Registrations /\ i \in g.PlayerAlive
                THEN [st EXCEPT !.playersActive = TRUE]
                ELSE IF i \in g.Registrations
                THEN [st EXCEPT !.g.Status = SetBit(@, i + 1),
                                !.g.Registrations = @ \ {i}]
                ELSE st
    IN  [next EXCEPT !.g.PlayerAlive = @ \ {i}]

\* for i = 0; i < 4; i++
RECURSIVE ManageSlots(_, _)
ManageSlots(st, i) ==
    IF i >= 4 THEN st ELSE ManageSlots(ManageSlot(st, i), i + 1)

\* ManagePlayers, one sweep: when it found no registered slot alive it
\* closes the servers and ends, otherwise it sleeps until the next sweep.
ManagePlayers(o) ==
    /\ tasks[o].sweep > 0
    /\ UNCHANGED <<GameServers, config, relay, counters, authenticated, pc, pending>>
    /\ LET st == ManageSlots([g |-> gs[o], playersActive |-> FALSE], 0)
       IN  IF ~st.playersActive
           THEN /\ boundTCP' = boundTCP \ ClosedTCP(gs[o])
                /\ boundUDP' = boundUDP \ ClosedUDP(gs[o])
                /\ tasks' = [tasks EXCEPT ![o].sweep = @ - 1]
                /\ gs' = Collect([gs EXCEPT ![o] = CloseServers(st.g)])
           ELSE /\ gs' = [gs EXCEPT ![o] = st.g]
                /\ UNCHANGED <<tasks, boundTCP, boundUDP>>

\* The later copies of ChangeBuffer in the file, which write the buffer into
\* every BufferSize and leave BufferHealth alone.
ChangeBuffer_SetsSize(o, buffer) ==
    /\ gs[o].TCPListener = "open"
    /\ gs' = [gs EXCEPT ![o].Buffer = buffer,
                        ![o].BufferSize = [i \in 0..3 |-> buffer]]
    /\ UNCHANGED <<GameServers, tasks, boundTCP, boundUDP, config, relay, counters,
                   authenticated, pc, pending>>

\* ChangeBuffer(buffer), which the room's TCP handler calls for a
\* BufferChange of a client.
ChangeBuffer(o, buffer) ==
    /\ gs[o].TCPListener = "open"
    /\ gs' = [gs EXCEPT ![o].Buffer = buffer,
                        ![o].BufferSize = [i \in 0..3 |-> 0],
                        ![o].BufferHealth = [i \in 0..3 |-> buffer]]
    /\ UNCHANGED <<GameServers, tasks, boundTCP, boundUDP, config, relay, counters,
                   authenticated, pc, pending>>

\* The room's TCP handler records the registration of slot i, when the slot
\* has none.
SendRegistration(o, i) ==
    /\ gs[o].TCPListener = "open"
    /\ i \notin gs[o].Registrations
    /\ gs' = [gs EXCEPT ![o].Registrations = @ \cup {i}]
    /\ UNCHANGED <<GameServers, tasks, boundTCP, boundUDP, config, relay, counters,
                   authenticated, pc, pending>>

\* The room's UDP handler reads a packet of the registered slot i: the slot
\* is alive.
processUDP(o, i) ==
    /\ gs[o].UDPListener = "open"
    /\ i \in gs[o].Registrations
    /\ gs' = [gs EXCEPT ![o].PlayerAlive = @ \cup {i}]
    /\ UNCHANGED <<GameServers, tasks, boundTCP, boundUDP, config, relay, counters,
                   authenticated, pc, pending>>

\* The room's UDP handler reads a CP0Info of the registered slot i whose
\* sync value differs from the one it has for that counter: Status |=
\* StatusDesync; the slot is alive.
CP0Info(o, i) ==
    /\ gs[o].UDPListener = "open"
    /\ i \in gs[o].Registrations
    /\ gs' = [gs EXCEPT ![o].Status = IF Desync(@) THEN @ ELSE @ + StatusDesync,
                        ![o].PlayerAlive = @ \cup {i}]
    /\ UNCHANGED <<GameServers, tasks, boundTCP, boundUDP, config, relay, counters,
                   authenticated, pc, pending>>

\* purgeInactiveRooms on a room whose LastActivity is older than ten minutes:
\* the listeners are forgotten, not closed, and the entry is deleted.  No
\* statement of the program calls it or starts it as a goroutine, so it is a
\* step of no specification below.
purgeInactiveRooms(n) ==
    /\ n \in Registered
    /\ GameServers' = [GameServers EXCEPT ![n] = 0]
    /\ UNCHANGED <<tasks, boundTCP, boundUDP, config, relay, counters, authenticated, pc, pending>>
    /\ gs' = Collect([gs EXCEPT ![GameServers[n]].TCPListener = "nil",
                                ![GameServers[n]].UDPListener = "nil"])

(* ------------------------ the relay (server.cpp) ---------------------- *)
\* A uint32_t is a pair of 16-bit words <<high, low>>; a datagram is a
\* sequence of bytes.
\* The most inputs the server keeps for a slot.
InputDataMax == 5000

Word == 256 * 256
Zero32 == <<0, 0>>
Max32 == <<Word - 1, Word - 1>>

\* ++count and count-1 on a uint32_t.
Inc32(v) == IF v[2] = Word - 1 THEN <<(v[1] + 1) % Word, 0>> ELSE <<v[1], v[2] + 1>>
Dec32(v) == IF v[2] = 0 THEN <<(v[1] + Word - 1) % Word, Word - 1>> ELSE <<v[1], v[2] - 1>>

\* qToBigEndian: the four bytes of v, the most significant first.
qToBigEndian(v) == <<v[1] \div 256, v[1] % 256, v[2] \div 256, v[2] % 256>>

\* qFromBigEndian on the four bytes of d that start at offset at (from 0).
qFromBigEndian(d, at) ==
    <<d[at + 1] * 256 + d[at + 2], d[at + 3] * 256 + d[at + 4]>>

\* The datagrams of the clients, as readPendingDatagrams takes them apart.
KeyInfoClient(slot, count, keys, plugin) ==
    <<0, slot>> \o qToBigEndian(count) \o qToBigEndian(keys) \o <<plugin>>

PlayerInputRequest(slot, count, spectator) ==
    <<2, slot>> \o qToBigEndian(count) \o <<spectator>>

\* The counters, keys and plugin bytes of the datagrams of a run; one
\* datagram has a type that the relay does not know.
RelayCounts == {Zero32, Max32, <<1, 0>>}
RelayKeys == {<<<<43707, 52445>>, 2>>, <<<<0, 5>>, 1>>}
Datagrams ==
    {KeyInfoClient(i, c, k[1], k[2]) : i \in Slots, c \in {Zero32, Max32}, k \in RelayKeys}
    \cup {PlayerInputRequest(i, c, sp) : i \in Slots, c \in RelayCounts, sp \in {0, 1}}
    \cup {<<4, 0, 0, 0, 0, 0, 0>>}

\* inputs[playerNum][count] = v
PutInput(inp, count, v) ==
    [x \in DOMAIN inp \cup {count} |-> IF x = count THEN v ELSE inp[x]]

\* checkIfExists that takes a queued button for the counter also when the
\* relay has an input for it.
checkIfExists_Overwrites(st, count) ==
    IF st.buttons # <<>>
    THEN [st EXCEPT !.inputs = PutInput(@, count, Head(st.buttons)),
                    !.buttons = Tail(@)]
    ELSE IF count \in DOMAIN st.inputs THEN st
    ELSE IF Dec32(count) \in DOMAIN st.inputs
    THEN [st EXCEPT !.inputs = PutInput(@, count, st.inputs[Dec32(count)])]
    ELSE [st EXCEPT !.inputs = PutInput(@, count, <<Zero32, 0>>)]

\* checkIfExists on the inputs and the buttons of one player: a counter the
\* relay has no input for gets the first queued button, else the input of the
\* counter before it, else (0, 0).
checkIfExists(st, count) ==
    IF count \in DOMAIN st.inputs THEN st
    ELSE IF st.buttons # <<>>
    THEN [st EXCEPT !.inputs = PutInput(@, count, Head(st.buttons)),
                    !.buttons = Tail(@)]
    ELSE IF Dec32(count) \in DOMAIN st.inputs
    THEN [st EXCEPT !.inputs = PutInput(@, count, st.inputs[Dec32(count)])]
    ELSE [st EXCEPT !.inputs = PutInput(@, count, <<Zero32, 0>>)]

\* The loop of sendInput from its round i on: st has the player's inputs and
\* buttons, the counter and the buffer filled so far (buffer[2] of the code
\* is the third byte).
RECURSIVE sendInputLoop(_, _, _)
sendInputLoop(st, i, spectator) ==
    IF i >= st.buffer[3] THEN st
    ELSE LET ck == checkIfExists(st, st.count)
             input == ck.inputs[st.count]
             nx == IF spectator = 0 \/ st.count \in DOMAIN st.inputs
                   THEN [ck EXCEPT !.buffer = @ \o qToBigEndian(st.count)
                                                \o qToBigEndian(input[1]) \o <<input[2]>>]
                   ELSE st
         IN  sendInputLoop([nx EXCEPT !.count = Inc32(@)], i + 1, spectator)

\* sendInput that writes its buffer whatever the loop put into it.
sendInput_AlwaysWrites(inp, btn, count, playerNum, spectator) ==
    LET st == sendInputLoop([inputs |-> inp, buttons |-> btn, count |-> count,
                             buffer |-> <<1, playerNum, 4>>], 0, spectator)
    IN  [inputs |-> st.inputs, buttons |-> st.buttons, datagram |-> st.buffer]

\* sendInput that fills in and stores missing inputs for a spectator too.
sendInput_Synthesises(inp, btn, count, playerNum, spectator) ==
    LET st == sendInputLoop([inputs |-> inp, buttons |-> btn, count |-> count,
                             buffer |-> <<1, playerNum, 4>>], 0, 0)
    IN  [inputs |-> st.inputs, buttons |-> st.buttons,
         datagram |-> IF Len(st.buffer) > 3 THEN st.buffer ELSE <<>>]

\* sendInput on the inputs and buttons of player playerNum: what they are
\* afterwards, and the datagram written (<<>> when curr is still 3).
sendInput(inp, btn, count, playerNum, spectator) ==
    LET st == sendInputLoop([inputs |-> inp, buttons |-> btn, count |-> count,
                             buffer |-> <<1, playerNum, 4>>], 0, spectator)
    IN  [inputs |-> st.inputs, buttons |-> st.buttons,
         datagram |-> IF Len(st.buffer) > 3 THEN st.buffer ELSE <<>>]

\* readPendingDatagrams, one round of its loop on the datagram d.
readPendingDatagrams(d) ==
    /\ datagrams' = datagrams + 1
    /\ received' = d
    /\ LET playerNum == d[2]
       IN  CASE d[1] = 0 ->
                  /\ buttons' = [buttons EXCEPT ![playerNum] =
                                    Append(@, <<qFromBigEndian(d, 6), d[11]>>)]
                  /\ inputs' = inputs
                  /\ written' = <<>>
             [] d[1] = 2 ->
                  LET r == sendInput(inputs[playerNum], buttons[playerNum],
                                     qFromBigEndian(d, 2), playerNum, d[7])
                  IN  /\ inputs' = [inputs EXCEPT ![playerNum] = r.inputs]
                      /\ buttons' = [buttons EXCEPT ![playerNum] = r.buttons]
                      /\ written' = r.datagram
             [] OTHER ->
                  /\ UNCHANGED <<inputs, buttons>>
                  /\ written' = <<>>
    /\ UNCHANGED <<lobby, counters>>

(* ------------------ the frame counters (uintLarger) ------------------- *)
\* w - v on uint32 values, modulo 2^32.
Sub32(w, v) ==
    IF w[2] >= v[2]
    THEN <<(w[1] - v[1] + Word) % Word, w[2] - v[2]>>
    ELSE <<(w[1] - v[1] - 1 + Word) % Word, w[2] - v[2] + Word>>

\* a > b on uint32 values.
Gt32(a, b) == a[1] > b[1] \/ (a[1] = b[1] /\ a[2] > b[2])

\* v / 2, the division of integers.
Half32(v) == <<v[1] \div 2, ((v[1] % 2) * Word + v[2]) \div 2>>

\* math.MaxUint32
MaxUint32 == <<Word - 1, Word - 1>>

\* uintLarger with >= in the place of >.
uintLarger_AtLeastHalf(v, w) ==
    Gt32(Sub32(w, v), Half32(MaxUint32)) \/ Sub32(w, v) = Half32(MaxUint32)

\* uintLarger: (w - v) > (math.MaxUint32 / 2)
uintLarger(v, w) == Gt32(Sub32(w, v), Half32(MaxUint32))

\* The counters a run compares: the ends of the range, the two sides of its
\* middle, and counters of a game.
Counters32 ==
    {<<0, 0>>, <<0, 1>>, <<0, 2>>, <<0, 5000>>, <<0, Word - 1>>, <<1, 0>>,
     <<Word \div 2 - 1, Word - 1>>, <<Word \div 2, 0>>, <<Word \div 2, 1>>,
     <<Word - 1, Word - 2>>, <<Word - 1, Word - 1>>}

\* One call of uintLarger on the operands of the run.
Compare ==
    /\ larger = <<>>
    /\ larger' = <<uintLarger(operands[1], operands[2])>>
    /\ UNCHANGED <<lobby, relay, operands>>

(* --------------------------- specifications --------------------------- *)
\* Spec: the registry, the rooms and their tasks.  Its scenario bounds: every
\* room has the one seat of its creator, one room at a time has a started
\* game, and a game is started after the room's first MonitorActivity pass.
Started(o) == gs[o].StartTime # "zero"

MayBegin(port) ==
    \A g \in findGameServer(port) \ {0} :
        /\ tasks[g].monitor = 0
        /\ \A o \in Objs \ {g} : ~Started(o)

Next ==
    \/ \E c \in Conns, m \in CreateInputs : CreateRoom(c, m)
    \/ \E c \in Conns : CreateRoomFinish(c)
    \/ \E c \in Conns, m \in GetRoomsInputs : GetRooms(c, m)
    \/ \E c \in Conns, port \in Ports : RequestPlayers(c, port)
    \/ \E c \in Conns, port \in Ports : ChatMessage(c, port)
    \/ \E c \in Conns : RequestMotd(c)
    \/ \E c \in Conns : RequestVersion(c)
    \/ \E c \in Conns, port \in Ports : MayBegin(port) /\ BeginGame(c, port)
    \/ \E c \in Conns : BeginGameFinish(c)
    \/ \E c \in Conns : Disconnect(c)
    \/ \E c \in Conns : PlayerDrop(c)
    \/ \E o \in Objs : MonitorActivity(o)
    \/ \E o \in Objs : watchGameServer(o)
    \/ \E o \in Objs : ManagePlayers(o)

Spec == Init /\ [][Next]_vars

\* SpecSeats: the seats of one room.  Its scenario bounds: one room is created
\* during a run and the connections join it as often as they like, under the
\* names of the room, the empty name and one new name; its game is not
\* started.
OneRoom ==
    /\ \A o \in Objs : ~gs[o].used
    /\ \A d \in Conns : pc[d] # "create"

NextSeats ==
    \/ \E c \in Conns, m \in CreateInputs : OneRoom /\ CreateRoom(c, m)
    \/ \E c \in Conns : CreateRoomFinish(c)
    \/ \E c \in Conns, m \in GetRoomsInputs : GetRooms(c, m)
    \/ \E c \in Conns, m \in JoinInputs : m.PlayerName \in JoinNames(m.Port) /\ JoinRoom(c, m)
    \/ \E c \in Conns : JoinRoomFinish(c)
    \/ \E c \in Conns, port \in Ports : RequestPlayers(c, port)
    \/ \E c \in Conns, port \in Ports : ChatMessage(c, port)
    \/ \E c \in Conns : RequestMotd(c)
    \/ \E c \in Conns : RequestVersion(c)
    \/ \E c \in Conns : Disconnect(c)
    \/ \E c \in Conns : PlayerDrop(c)

SpecSeats == Init /\ [][NextSeats]_vars

\* SpecSweep: the slots of one room.  Its scenario bounds: one room is
\* created during a run, its game is started after the room's first
\* MonitorActivity pass, and the slots of Slots register and send packets.
Buffers == {2}

NextSweep ==
    \/ \E c \in Conns, m \in CreateInputs : OneRoom /\ CreateRoom(c, m)
    \/ \E c \in Conns : CreateRoomFinish(c)
    \/ \E c \in Conns, m \in GetRoomsInputs : GetRooms(c, m)
    \/ \E c \in Conns, port \in Ports : MayBegin(port) /\ BeginGame(c, port)
    \/ \E c \in Conns : BeginGameFinish(c)
    \/ \E c \in Conns : Disconnect(c)
    \/ \E o \in Objs : MonitorActivity(o)
    \/ \E o \in Objs : watchGameServer(o)
    \/ \E o \in Objs : ManagePlayers(o)
    \/ \E o \in Objs, b \in Buffers : ChangeBuffer(o, b)
    \/ \E o \in Objs, i \in Slots : SendRegistration(o, i)
    \/ \E o \in Objs, i \in Slots : processUDP(o, i)
    \/ \E o \in Objs, i \in Slots : CP0Info(o, i)

SpecSweep == Init /\ [][NextSweep]_vars

\* SpecMonitor: the life of one room with all its tasks.  Its scenario
\* bounds: one room is created during a run; its game may be started before
\* the room's MonitorActivity has made its first pass (nothing orders the
\* two), so that the monitor can find the room running.  The tasks are
\* goroutines that wake on their timers and the second steps of the handlers
\* are statements of a running goroutine: each of them happens when it stays
\* possible.  The requests, the disconnects and the packets of the clients
\* need not happen.
NextMonitor ==
    \/ \E c \in Conns, m \in CreateInputs : OneRoom /\ CreateRoom(c, m)
    \/ \E c \in Conns : CreateRoomFinish(c)
    \/ \E c \in Conns, port \in Ports : BeginGame(c, port)
    \/ \E c \in Conns : BeginGameFinish(c)
    \/ \E c \in Conns : Disconnect(c)
    \/ \E c \in Conns : PlayerDrop(c)
    \/ \E o \in Objs : MonitorActivity(o)
    \/ \E o \in Objs : MonitorRestart(o)
    \/ \E o \in Objs : watchGameServer(o)
    \/ \E o \in Objs : ManagePlayers(o)
    \/ \E o \in Objs, i \in Slots : SendRegistration(o, i)
    \/ \E o \in Objs, i \in Slots : processUDP(o, i)

Scheduling ==
    /\ \A o \in Objs : WF_vars(MonitorActivity(o))
    /\ \A o \in Objs : WF_vars(MonitorRestart(o))
    /\ \A o \in Objs : WF_vars(watchGameServer(o))
    /\ \A o \in Objs : WF_vars(ManagePlayers(o))
    /\ \A c \in Conns : WF_vars(CreateRoomFinish(c))
    /\ \A c \in Conns : WF_vars(BeginGameFinish(c))

SpecMonitor == Init /\ [][NextMonitor]_vars /\ Scheduling

\* SpecRegistry: the registry and the ports when no game is started.
NextRegistry ==
    \/ \E c \in Conns, m \in CreateInputs : CreateRoom(c, m)
    \/ \E c \in Conns : CreateRoomFinish(c)
    \/ \E c \in Conns, m \in GetRoomsInputs : GetRooms(c, m)
    \/ \E c \in Conns : RequestVersion(c)
    \/ \E c \in Conns : Disconnect(c)
    \/ \E c \in Conns : PlayerDrop(c)
    \/ \E o \in Objs : MonitorActivity(o)

SpecRegistry == Init /\ [][NextRegistry]_vars

\* SpecRelay: the relay reads the datagrams of a run one after the other.
NextRelay == \E d \in Datagrams : datagrams < MaxDatagrams /\ readPendingDatagrams(d)

SpecRelay == Init /\ [][NextRelay]_vars

\* SpecFrames: one player asks for its frames four at a time, from counter 0
\* on, as a client does during a game.  A run starts after some requests
\* of the game, with the inputs the relay has stored by then: up to
\* FirstRequests requests, or all but the last of the MaxRequests requests
\* it takes to go past InputDataMax; it goes on up to one request past
\* these.
U32(n) == <<n \div Word, n % Word>>

MaxRequests == InputDataMax \div 4 + 1

\* The inputs of a player after its requests for the frames 0..n-1, none of
\* which it has sent buttons for: checkIfExists stored (0, 0) for each.
Frames(n) == [c \in {U32(k) : k \in 0..(n - 1)} |-> <<Zero32, 0>>]

RequestsBefore == 0..FirstRequests \cup {MaxRequests - 1}

InitFrames ==
    /\ InitLobby
    /\ NoComparison
    /\ \E n \in RequestsBefore :
          /\ datagrams = n
          /\ inputs = [i \in Slots |-> IF i = 0 THEN Frames(4 * n) ELSE <<>>]
    /\ buttons = [i \in Slots |-> <<>>]
    /\ received = <<>>
    /\ written = <<>>

NextFrames ==
    /\ datagrams \in RequestsBefore
    /\ readPendingDatagrams(PlayerInputRequest(0, U32(4 * datagrams), 0))

SpecFrames == InitFrames /\ [][NextFrames]_vars

\* SpecCounters: uintLarger is called on two counters drawn at the start.
InitCounters ==
    /\ InitLobby
    /\ inputs = [i \in Slots |-> <<>>]
    /\ buttons = [i \in Slots |-> <<>>]
    /\ datagrams = 0
    /\ received = <<>>
    /\ written = <<>>
    /\ operands \in Counters32 \X Counters32
    /\ larger = <<>>

NextCounters == Compare

SpecCounters == InitCounters /\ [][NextCounters]_vars

(* ======================== the claims, create_room ===================== *)
\* The checks of create_room in the order the claim gives them, each with the
\* accept code it is said to produce.
CreateOrder(m) ==
    << <<m.RoomName \in Registered, DuplicateName>>,
       <<m.NetplayVersion # "MPN-4", MismatchVersion>>,
       <<m.RoomName = "", BadName>>,
       <<m.PlayerName = "", BadName>>,
       <<m.Emulator = "", BadEmulator>>,
       <<~validateAuth(m), BadAuth>> >>

FirstFailing(order) ==
    LET failing == {i \in 1..Len(order) : order[i][1]}
    IN  IF failing = {} THEN Accepted ELSE order[Min(failing)][2]

\* No port of basePort+1 .. basePort+maxGames can be bound.
NoPortLeft == \A p \in (BasePort + 1)..(BasePort + MaxGames) : p \in boundTCP \/ p \in boundUDP

C1_Codes ==
    /\ \A m \in CreateRequests :
          LET code == FirstFailing(CreateOrder(m))
          IN  /\ CreateRoomCheck(m) = code
              /\ code # Accepted =>
                    \A c \in Conns :
                       CreateRoomSends(c, m) = sendData({Msg(c, "reply_create_room", code, 0)})
    /\ \A c \in Conns : pc[c] = "create" =>
          \E m \in CreateRoomFinishSends(c) :
             /\ CreateRoomFinishSends(c) = {m}
             /\ m.accept = IF NoPortLeft THEN Other ELSE Accepted

\* A handler that answers with a failing code leaves the registry as it was,
\* and one that answers Accepted has put its room in the registry.
C1_Step ==
    /\ \A n \in RoomNames :
          GameServers'[n] \notin {0, GameServers[n]} =>
             \E c \in Conns : /\ pc[c] = "create" /\ pc'[c] = "read"
                              /\ pending[c].RoomName = n /\ ~NoPortLeft
    /\ \A c \in Conns :
          (pc[c] = "create" /\ pc'[c] = "read") =>
             IF NoPortLeft
             THEN GameServers' = GameServers /\ boundTCP' = boundTCP /\ boundUDP' = boundUDP
             ELSE /\ pending[c].RoomName \in Registered'
                  /\ \A n \in RoomNames \ {pending[c].RoomName} : GameServers'[n] = GameServers[n]

\* C1: the reply of every create_room carries the code of the first failing
\* check in the order DuplicateName, MismatchVersion, BadName (room), BadName
\* (player), BadEmulator, BadAuth, Other; it is Accepted only when every check
\* passes, and in every failing case the registry gains no room.
C1_CreateRoomCodes == []C1_Codes /\ [][C1_Step]_vars

\* A create_room that passed the six checks finds every port taken.
C1_Witness == \E c \in Conns : pc[c] = "create" /\ NoPortLeft /\ Registered # {}

(* ===================== the claims, authentication ===================== *)
\* The server runs with --enable-auth and the <EMULATOR>_AUTH variable unset.
AuthWithoutSecret == EnableAuth /\ authEnv = ""

\* The five checks that create_room makes before it validates the auth code.
PassesEarlierChecks(m) ==
    /\ m.RoomName \notin Registered
    /\ m.NetplayVersion = "MPN-4"
    /\ m.RoomName # ""
    /\ m.PlayerName # ""
    /\ m.Emulator # ""

\* C10 as stated: with auth enabled and no secret in the environment, any
\* create_room request is answered with BadAuth(8).
C10_AnyRequestBadAuth ==
    AuthWithoutSecret => \A m \in CreateRequests : CreateRoomCheck(m) = BadAuth

\* C10, amended: with auth enabled and no secret in the environment, every
\* create_room request that passes the five earlier checks is answered with
\* BadAuth(8); no room is created, no port is bound and no connection is
\* authenticated.
C10_NoSecretBadAuth ==
    AuthWithoutSecret =>
       /\ \A m \in CreateRequests :
             /\ PassesEarlierChecks(m) => CreateRoomCheck(m) = BadAuth
             /\ CreateRoomCheck(m) # Accepted
             /\ \A c \in Conns : pc[c] = "read" =>
                   \E r \in CreateRoomSends(c, m) : r.accept # Accepted
       /\ Registered = {} /\ boundTCP = {} /\ boundUDP = {}
       /\ \A o \in Objs : ~gs[o].used
       /\ \A c \in Conns : ~authenticated[c] /\ pc[c] # "create"

\* Auth without a secret, a connection has gone, and a create_room that only
\* the auth check can stop is at hand.
C10_Witness ==
    /\ AuthWithoutSecret
    /\ \E c \in Conns : pc[c] = "closed"
    /\ \E c \in Conns, m \in CreateInputs :
          pc[c] = "read" /\ PassesEarlierChecks(m) /\ m.Auth = Sha256Hex(m.AuthTime, "")
                         /\ CreateRoomCheck(m) = BadAuth

(* ========================= the claims, join_room ====================== *)
\* The checks of join_room in the order the claim gives them, on the room g
\* that has the requested port (0 when no room has it).  mismatch says when
\* the password of the request does not match the room's.
JoinOrder(g, m, mismatch) ==
    IF g = 0 THEN << <<TRUE, RoomDeleted>> >>
    ELSE << <<mismatch, BadPassword>>,
            <<gs[g].ClientSha # m.ClientSha, MismatchVersion>>,
            <<gs[g].MD5 # m.MD5, MismatchVersion>>,
            <<Cardinality(gs[g].Players) >= 4, RoomFull>>,
            <<m.PlayerName = "", BadName>>,
            <<m.PlayerName \in {p.Name : p \in gs[g].Players}, DuplicateName>> >>

\* The reply that the handler of an authenticated connection c writes at once
\* is the one with this code, and it goes on to add a seat when the code is
\* Accepted.
AnswersJoinWith(c, m, g, code) ==
    /\ JoinRoomCheck(g, m) = code
    /\ JoinRoomSends(c, m, g) =
          IF code = Accepted THEN {} ELSE sendData({Msg(c, "reply_join_room", code, 0)})

AuthenticatedReaders == {c \in Conns : pc[c] = "read" /\ authenticated[c]}

\* C2 as stated: the password check fails whenever the password of the request
\* differs from the room's.
C2_AnyMismatchBadPassword ==
    \A c \in AuthenticatedReaders, m \in JoinRequests : \A g \in findGameServer(m.Port) :
       AnswersJoinWith(c, m, g,
          FirstFailing(JoinOrder(g, m, g # 0 /\ gs[g].Password # m.Password)))

C2_Codes ==
    \A c \in AuthenticatedReaders, m \in JoinRequests : \A g \in findGameServer(m.Port) :
       AnswersJoinWith(c, m, g,
          FirstFailing(JoinOrder(g, m, g # 0 /\ gs[g].Password # ""
                                              /\ gs[g].Password # m.Password)))

\* The second step of an accepted join writes the reply Accepted with the
\* room's port and adds the seat of the joiner.
C2_Step ==
    \A c \in Conns :
       (pc[c] = "join" /\ pc'[c] = "read") =>
          /\ JoinRoomFinishSends(c) =
                sendData({Msg(c, "reply_join_room", Accepted, gs[pending[c].g].Port)})
          /\ \E p \in gs'[pending[c].g].Players :
                p.Name = pending[c].PlayerName /\ p.Socket = c

\* C2, amended: the reply to a join_room of an authenticated connection has
\* the code of the first failing check in the order RoomDeleted, BadPassword,
\* MismatchVersion (build), MismatchVersion (ROM), RoomFull, BadName,
\* DuplicateName, where the password check fails only for a room that has a
\* non-empty password different from the request's; when every check passes
\* the reply is Accepted and a seat is added.
C2_JoinRoomCodes == []C2_Codes /\ [][C2_Step]_vars

\* A protected room and a public room are the two cases of the password
\* check: here a seat was added by a join to a protected room.
C2_Witness ==
    \E o \in Rooms : /\ gs[o].Password # ""
                     /\ Cardinality(gs[o].Players) >= 2
                     /\ AuthenticatedReaders # {}

(* =========================== the claims, seats ======================== *)
\* C3: in every reachable state the seats of each room have pairwise distinct
\* seat numbers, every seat number is in {0,1,2,3}, and the room has at most
\* 4 seats, whatever the interleaving of create_room, join_room and the
\* handling of disconnects on different connections.
C3_SeatsDistinct ==
    \A o \in Rooms :
       /\ \A p, q \in gs[o].Players : p.Number = q.Number => p = q
       /\ \A p \in gs[o].Players : p.Number \in {0, 1, 2, 3}
       /\ Cardinality(gs[o].Players) <= 4

\* The least number of {0,1,2,3} that no seat of players has.
LeastFree(players) ==
    CHOOSE n \in {0, 1, 2, 3} :
       /\ \A p \in players : p.Number # n
       /\ \A k \in 0..(n - 1) : \E p \in players : p.Number = k

\* The handler of an accepted join takes the least number that is free in the
\* room when it looks for one, and gives that number to the seat it adds.
C4_Step ==
    \A c \in Conns :
       /\ (pc[c] = "read" /\ pc'[c] = "join") =>
             pending'[c].number = LeastFree(gs[pending'[c].g].Players)
       /\ (pc[c] = "join" /\ pc'[c] = "read") =>
             Seat(pending[c].PlayerName, pending[c].number, c) \in gs'[pending[c].g].Players

\* C4: an accepted join_room gives the joiner the smallest seat number of
\* {0,1,2,3} that no seat of the room holds when the handler assigns it, so
\* that a number freed by a disconnect is used again before a higher one.
C4_LowestFreeSeat == [][C4_Step]_vars

\* A handler is about to seat a joiner on number 1, which a disconnect freed,
\* while another seat of the room has number 2.
C4_Witness ==
    \E c \in Conns :
       /\ pc[c] = "join" /\ pending[c].number = 1
       /\ Closed # {}
       /\ \E q \in gs[pending[c].g].Players : q.Number = 2
       /\ \A q \in gs[pending[c].g].Players : q.Number # 1

\* The fields of a room that a join could touch.
RoomState(o) ==
    <<gs[o].Players, gs[o].Running, gs[o].Port, gs[o].Name, gs[o].Password,
      gs[o].ClientSha, gs[o].MD5, gs[o].Emulator, gs[o].TCPListener, gs[o].UDPListener>>

\* A join that is answered with a failing code is answered in the first step
\* of the handler; the connection goes back to reading.  Such a step changes
\* no room and no registry entry.
C5_Step ==
    (\A c \in Conns : pc'[c] = pc[c]) =>
        /\ GameServers' = GameServers
        /\ \A o \in Objs : RoomState(o)' = RoomState(o)

\* C5: a join_room that is answered with a non-zero accept code, RoomFull for
\* the fifth joiner to a room of 4 seats among them, leaves the seats of the
\* room, its running flag, its port and its settings unchanged.
C5_RejectedJoinFrame == [][C5_Step]_vars

\* A room of 4 seats and an authenticated connection that can ask to join it.
C5_Witness ==
    \E o \in Rooms : \E c \in AuthenticatedReaders, m \in JoinInputs :
       /\ Cardinality(gs[o].Players) = 4
       /\ m.Port = gs[o].Port
       /\ JoinRoomCheck(o, m) = RoomFull

(* ================== the claims, the authenticated flag ================ *)
\* What the handlers of an unauthenticated connection write for the gated
\* requests, whatever the request: nothing; request_version is answered.
C9_Gate ==
    \A c \in Conns : pc[c] = "read" =>
       /\ RequestVersionSends(c) = {Msg(c, "reply_version", 0, 0)}
       /\ ~authenticated[c] =>
             /\ RequestMotdSends(c) = {}
             /\ \A m \in JoinInputs : \A g \in findGameServer(m.Port) : JoinRoomSends(c, m, g) = {}
             /\ \A port \in Ports : \A g \in findGameServer(port) :
                   RequestPlayersSends(c, port, g) = {} /\ ChatMessageSends(c, port, g) = {}

\* A handler is between the two steps of a join_room or a begin_game only on
\* an authenticated connection, and a closed connection is not authenticated.
C9_Inside ==
    \A c \in Conns :
       /\ pc[c] \in {"join", "begin"} => authenticated[c]
       /\ pc[c] = "closed" => ~authenticated[c]

\* The flag is set by a create_room or get_rooms of the connection itself
\* whose auth is valid, and is cleared only when the connection closes; the
\* only request of an unauthenticated connection that starts any work is
\* create_room.
C9_Step ==
    \A c \in Conns :
       /\ (~authenticated[c] /\ authenticated'[c]) =>
             \/ \E m \in CreateInputs : validateAuth(m) /\ CreateRoom(c, m)
             \/ \E m \in GetRoomsInputs : validateAuth(m) /\ GetRooms(c, m)
       /\ (authenticated[c] /\ ~authenticated'[c]) => pc'[c] = "closed"
       /\ (~authenticated[c] /\ pc[c] = "read" /\ pc'[c] # "read") =>
             pc'[c] \in {"create", "closed"}

\* C9: a connection is Authenticated only after one of its own create_room
\* or get_rooms requests passed auth and stays so until it closes; while it is
\* Unauthenticated its join_room, request_players, chat_message, begin_game
\* and request_motd requests change nothing and send nothing; request_version
\* is answered in both states.
C9_AuthenticatedGate == []C9_Gate /\ []C9_Inside /\ [][C9_Step]_vars

\* With auth enabled and a secret set: one connection was authenticated by
\* its create_room, the other is not authenticated and the room of the first
\* is there for it to ask to join or to begin.
C9_Witness ==
    /\ EnableAuth /\ authEnv # ""
    /\ \E c, d \in Conns :
          /\ pc[c] = "read" /\ ~authenticated[c]
          /\ pc[d] = "read" /\ authenticated[d]
          /\ \E o \in Rooms : ~gs[o].Running /\ SeatsOf(d, gs[o].Players) # {}

(* ======================== the claims, the ports ======================= *)
\* C6: every room of the registry has its port in basePort+1 ..
\* basePort+maxGames and no two rooms of the registry have the same port.
C6_PortsDistinct ==
    /\ \A o \in Rooms : gs[o].Port \in (BasePort + 1)..(BasePort + MaxGames)
    /\ \A n1, n2 \in Registered :
          gs[GameServers[n1]].Port = gs[GameServers[n2]].Port => n1 = n2

(* ======================== the claims, begin_game ====================== *)
\* The connections that the second step of the begin_game of c writes to.
BeginRecipients(c) == {m.to : m \in BeginGameFinishSends(c)}

\* C7: over the life of a room no seat is sent a second reply_begin_game:
\* the begin_game that sends the replies finds no connection among the seats
\* that was sent one before.
C7_OneBeginReply ==
    [][\A c \in Conns :
          (pc[c] = "begin" /\ pc'[c] = "read") =>
             BeginRecipients(c) \cap gs[pending[c].g].begun = {}]_vars

\* C8: the running flag of a room becomes true only in the handling of a
\* begin_game that came from the connection of the seat numbered 0.
C8_CreatorBegins ==
    [][\A o \in Objs :
          (~gs[o].Running /\ gs'[o].Running) =>
             \E c \in Conns :
                /\ pc[c] = "begin" /\ pc'[c] = "read" /\ pending[c].g = o
                /\ \E p \in gs[o].Players : p.Number = 0 /\ p.Socket = c]_vars
(* ==================== the claims, the version check =================== *)
\* C11: a create_room or a get_rooms whose netplay_version is not "MPN-4" is
\* answered with MismatchVersion(2), whatever its other fields and whatever
\* rooms the registry has.
C11_VersionMismatch ==
    \A c \in Conns : pc[c] = "read" =>
       /\ \A m \in CreateRequests : m.NetplayVersion # "MPN-4" =>
             CreateRoomSends(c, m) = {Msg(c, "reply_create_room", MismatchVersion, 0)}
       /\ \A m \in GetRoomsRequests : m.NetplayVersion # "MPN-4" =>
             GetRoomsSends(c, m) = {Msg(c, "reply_get_rooms", MismatchVersion, 0)}

(* ===================== the claims, a connection closes ================ *)
\* C12: once a lobby connection has closed, no room of the registry has a
\* seat whose socket is that connection, whether the room's game has started
\* or not.
C12_SeatsOfClosedGone ==
    \A c \in Closed : \A o \in Rooms : SeatsOf(c, gs[o].Players) = {}

\* C13: the handling of a disconnect removes a room from the registry only
\* if the room is not running and has no seat left once the seats of the
\* closing connection are removed.
C13_DisconnectDestroys ==
    [][\A c \in Conns :
          (pc[c] = "read" /\ pc'[c] = "closed") =>
             \A n \in Registered :
                GameServers'[n] = 0 =>
                   /\ ~gs[GameServers[n]].Running
                   /\ gs[GameServers[n]].Players
                         \ SeatsOf(c, gs[GameServers[n]].Players) = {}]_vars

\* C14: when the connection that holds every seat of a room that is not
\* running closes, the handling of that disconnect removes the room from the
\* registry and closes both listeners, so that the port is free for the next
\* create_room.
C14_LastSeatFreesPort ==
    [][\A c \in Conns :
          (pc[c] = "read" /\ pc'[c] = "closed") =>
             \A n \in Registered :
                LET g == gs[GameServers[n]]
                IN  (~g.Running /\ g.Players # {} /\ g.Players = SeatsOf(c, g.Players)) =>
                       /\ GameServers'[n] = 0
                       /\ g.Port \notin boundTCP' \cup boundUDP']_vars

\* C15: no listener is open on a port that is the port of no room of the
\* registry: every removal of a room closed both of its listeners.
C15_NoListenerOutsideRegistry ==
    \A p \in boundTCP \cup boundUDP : \E o \in Rooms : gs[o].Port = p

(* ==================== the claims, concurrent creation ================= *)
\* C16: a create_room is Accepted only for a room name that is not in the
\* registry when its room is put there, so that of two concurrent requests
\* for one name at most one is accepted.
C16_CreationSerialised ==
    [][\A c \in Conns :
          (pc[c] = "create" /\ pc'[c] = "read" /\ ~NoPortLeft) =>
             pending[c].RoomName \notin Registered]_vars

(* ====================== the claims, the creator's seat ================ *)
\* C17: seat 0 is the seat of the room's creator: no join_room is given the
\* seat number 0, also when the creator has left the lobby.
C17_NoJoinerOnSeatZero ==
    [][\A c \in Conns :
          (pc[c] = "read" /\ pc'[c] = "join") => pending'[c].number # 0]_vars

(* ====================== the claims, request_players =================== *)
\* C18: a request_players for a room sends one reply_players to the socket
\* of every seat of the room and to no other connection; its player_names
\* has 4 entries, entry k the name of the seat numbered k and the empty
\* string when no seat has the number k.
C18_PlayersFanout ==
    \A c \in AuthenticatedReaders, port \in Ports : \A g \in findGameServer(port) \ {0} :
       LET sent == RequestPlayersSends(c, port, g)
       IN  /\ {m.to : m \in sent} = {p.Socket : p \in gs[g].Players}
           /\ \A m, m2 \in sent : m.to = m2.to => m = m2
           /\ \A m \in sent :
                 /\ m.type = "reply_players"
                 /\ Len(m.player_names) = 4
                 /\ \A p \in gs[g].Players : m.player_names[p.Number + 1] = p.Name
                 /\ \A k \in 0..3 :
                       (\A p \in gs[g].Players : p.Number # k) => m.player_names[k + 1] = ""

(* ========================= the claims, the relay ====================== *)
\* The first entry (counter, keys, plugin) of a KeyInfoServer datagram.
FirstEntry(d) == SubSeq(d, 4, 12)

\* C19: after the relay has read KeyInfoClient(slot, count, keys, plugin), a
\* PlayerInputRequest(slot, count, spectator = 1) is answered with a
\* KeyInfoServer datagram whose first entry is (count, keys, plugin).
C19_RelayedInput ==
    \A i \in Slots, c \in RelayCounts, k \in RelayKeys :
       received = KeyInfoClient(i, c, k[1], k[2]) =>
          LET d == sendInput(inputs[i], buttons[i], c, i, 1).datagram
          IN  /\ Len(d) >= 12
              /\ d[1] = 1 /\ d[2] = i
              /\ FirstEntry(d) = qToBigEndian(c) \o qToBigEndian(k[1]) \o <<k[2]>>

\* The four counters of the frames of a request that starts at count, and the
\* counters the relay has an input for.
FourFrom(count) == {count, Inc32(count), Inc32(Inc32(count)), Inc32(Inc32(Inc32(count)))}

Stored(i) == DOMAIN inputs[i]

RequestCounts == RelayCounts \cup {<<0, 1>>, <<0, 3>>, <<0, 4>>, <<Word - 1, Word - 4>>}

\* C20 as stated: a request with spectator = 1 for a counter that is not
\* stored for the slot is answered with no datagram, whatever else is stored.
C20_AbsentNoDatagram ==
    \A i \in Slots, c \in RequestCounts :
       c \notin Stored(i) => sendInput(inputs[i], buttons[i], c, i, 1).datagram = <<>>

\* C20, amended: a PlayerInputRequest(slot i, count) with spectator = 1 is
\* answered with no datagram exactly when none of the four counters count,
\* count+1, count+2, count+3 (modulo 2^32) is stored for slot i; it leaves
\* the stored inputs and the queued buttons of the slot as they are.
C20_NoneStoredNoDatagram ==
    /\ \A i \in Slots, c \in RequestCounts :
          LET r == sendInput(inputs[i], buttons[i], c, i, 1)
          IN  /\ (r.datagram = <<>>) <=> (FourFrom(c) \cap Stored(i) = {})
              /\ r.inputs = inputs[i]
              /\ r.buttons = buttons[i]
    /\ \A i \in Slots, c \in RelayCounts :
          (received = PlayerInputRequest(i, c, 1) /\ FourFrom(c) \cap Stored(i) = {})
             => written = <<>>

\* The relay has inputs for some counters of a slot and has just read a
\* request with spectator = 1 for four counters it has none of.
C20_Witness ==
    \E i \in Slots, c \in RelayCounts :
       /\ received = PlayerInputRequest(i, c, 1)
       /\ Stored(i) # {}
       /\ FourFrom(c) \cap Stored(i) = {}
       /\ written = <<>>

\* The entries of a KeyInfoServer datagram d, nine bytes each after the three
\* bytes of its head, and the counter and the input an entry carries.
Entries(d) == [k \in 1..((Len(d) - 3) \div 9) |-> SubSeq(d, 9 * k - 5, 9 * k + 3)]

EntryCount(e) == qFromBigEndian(e, 0)

EntryInput(e) == <<qFromBigEndian(e, 4), e[9]>>

\* count + n modulo 2^32.
RECURSIVE Plus32(_, _)
Plus32(count, n) == IF n = 0 THEN count ELSE Inc32(Plus32(count, n - 1))

\* The rounds 0..3 of a request, in their order, as a sequence.
RECURSIVE Rounds(_)
Rounds(sel) ==
    IF sel = {} THEN <<>>
    ELSE LET m == CHOOSE x \in sel : \A y \in sel : x <= y
         IN  <<m>> \o Rounds(sel \ {m})

\* What C21 says of the answer to PlayerInputRequest(i, c, sp) in a state.
C21_AnswerOf(i, c, sp) ==
    LET r == sendInput(inputs[i], buttons[i], c, i, sp)
        d == r.datagram
        es == IF d = <<>> THEN <<>> ELSE Entries(d)
        sel == IF sp = 0 THEN 0..3 ELSE {j \in 0..3 : Plus32(c, j) \in Stored(i)}
        rounds == Rounds(sel)
    IN  /\ (d # <<>>) => (Len(d) = 3 + 9 * Len(es) /\ <<d[1], d[2]>> = <<1, i>>)
        /\ Len(es) <= 4
        /\ Len(es) = Len(rounds)
        /\ \A k \in 1..Len(es) :
              /\ EntryCount(es[k]) = Plus32(c, rounds[k])
              /\ EntryInput(es[k]) = r.inputs[EntryCount(es[k])]
        /\ (sp # 0) => (r.inputs = inputs[i] /\ r.buttons = buttons[i])
        /\ (sel = {}) => (d = <<>>)

C22_InputsBounded ==
    \A i \in Slots : Cardinality(Stored(i)) <= InputDataMax

\* Every state of SpecFrames is the state of the relay after the requests
\* for the frames before it: the runs that start late start in states the
\* runs from the beginning lead to.
FramesReached ==
    /\ inputs[0] = Frames(4 * datagrams)
    /\ \A i \in Slots \ {0} : inputs[i] = <<>>

(* ===================== the claims, the frame counters ================= *)
\* a >= b on 32-bit unsigned values, and a - b for a >= b.
AtLeast32(a, b) == a[1] > b[1] \/ (a[1] = b[1] /\ a[2] >= b[2])

Minus32(a, b) ==
    IF a[2] >= b[2] THEN <<a[1] - b[1], a[2] - b[2]>>
    ELSE <<a[1] - b[1] - 1, a[2] + Word - b[2]>>

\* (w - v) mod 2^32: w - v when w >= v, and 2^32 - (v - w) when w < v, which
\* is (2^32 - 1) - (v - w) + 1.
ModDiff32(w, v) ==
    IF AtLeast32(w, v) THEN Minus32(w, v)
    ELSE Inc32(Minus32(<<Word - 1, Word - 1>>, Minus32(v, w)))

\* C30: for the 32-bit unsigned v and w of a call, uintLarger(v, w) is true
\* exactly when (w - v) mod 2^32 >= 2^31; uintLarger(v, v) is false and
\* uintLarger(0, 2^32 - 1) is true.
C30_HalfRange ==
    LET v == operands[1]
        w == operands[2]
    IN  larger # <<>> =>
           /\ larger[1] = AtLeast32(ModDiff32(w, v), <<Word \div 2, 0>>)
           /\ (v = w) => (larger[1] = FALSE)
           /\ (v = <<0, 0>> /\ w = <<Word - 1, Word - 1>>) => (larger[1] = TRUE)

\* uintLarger(0, 2^32 - 1) has been called and has returned true.
C30_Witness ==
    /\ operands = <<<<0, 0>>, <<Word - 1, Word - 1>>>>
    /\ larger = <<TRUE>>

(* ========================= the claims, the slots ====================== *)
\* What a sweep of room o does in a step from the room g to the room h.
SweepOf(o, g, h) ==
    LET alive == g.Registrations \cap g.PlayerAlive
        dead == g.Registrations \ g.PlayerAlive
    IN  /\ (h.Name = g.Name) =>
             /\ \A i \in 0..3 :
                   /\ (i \in dead) => (i \notin h.Registrations /\ HasBit(h.Status, i + 1))
                   /\ (i \in alive) => (i \in h.Registrations)
                   /\ (i \notin dead) => (HasBit(h.Status, i + 1) <=> HasBit(g.Status, i + 1))
             /\ Desync(h.Status) <=> Desync(g.Status)
             /\ h.Registrations = alive
             /\ h.PlayerAlive = {}
             /\ IF alive = {}
                THEN h.TCPListener = "nil" /\ h.UDPListener = "nil" /\ ~h.Running
                ELSE /\ h.TCPListener = g.TCPListener
                     /\ h.UDPListener = g.UDPListener
                     /\ h.Running = g.Running
        /\ IF alive = {}
           THEN /\ tasks'[o].sweep = tasks[o].sweep - 1
                /\ boundTCP' = boundTCP \ ClosedTCP(g)
                /\ boundUDP' = boundUDP \ ClosedUDP(g)
           ELSE UNCHANGED <<tasks, boundTCP, boundUDP>>

C23_Step ==
    \A o \in Objs :
       (Desync(gs[o].Status) /\ gs'[o].Name = gs[o].Name) => Desync(gs'[o].Status)

\* With the desync flag set the room's UDP handler goes on reading the
\* packets of the registered slots, and get_rooms lists the room as it
\* lists any room that is not running.
C23_Operating ==
    \A o \in Objs :
       Desync(gs[o].Status) =>
          /\ \A i \in gs[o].Registrations :
                gs[o].UDPListener = "open" => (ENABLED processUDP(o, i) /\ ENABLED CP0Info(o, i))
          /\ \A c \in Conns, m \in GetRoomsInputs :
                (pc[c] = "read" /\ GetRoomsCheck(m) = Accepted
                   /\ o \in Rooms /\ ~gs[o].Running /\ gs[o].Emulator = m.Emulator)
                => \E r \in GetRoomsSends(c, m) : r.accept = Accepted /\ r.port = gs[o].Port

\* C23: once bit 0 of a room's Status (desync detected) is set, it is set in
\* every later state of the room: no sweep, buffer change, later CP0Info or
\* other step clears it; and the relay and get_rooms keep operating.
C23_DesyncSticks == []C23_Operating /\ [][C23_Step]_vars

\* A room whose desync flag was set during its game has been closed by a
\* later sweep, which marked slot 0 as disconnected: the flag is still set.
C23_Witness ==
    \E o \in Objs :
       /\ Started(o)
       /\ ~gs[o].Running
       /\ gs[o].UDPListener = "nil"
       /\ Desync(gs[o].Status)
       /\ HasBit(gs[o].Status, 1)
       /\ gs[o].Buffer # 0

(* ===================== the claims, the life of a room ================= *)
\* No room is running or in the registry and no listener of the process is
\* open: every port of the range can be given to the next create_room.
AllClosed ==
    /\ \A o \in Objs : ~gs[o].Running /\ gs[o].TCPListener # "open" /\ gs[o].UDPListener # "open"
    /\ Registered = {}
    /\ boundTCP = {}
    /\ boundUDP = {}

C25_Step ==
    \A o \in Objs :
       (ManagePlayers(o) /\ gs[o].Registrations \cap gs[o].PlayerAlive = {}) =>
          /\ boundTCP' = boundTCP \ ClosedTCP(gs[o])
          /\ boundUDP' = boundUDP \ ClosedUDP(gs[o])
          /\ gs[o].Port \notin boundTCP' \cup boundUDP'
          /\ ~gs'[o].Running
          /\ gs'[o].TCPListener = "nil" /\ gs'[o].UDPListener = "nil"
          /\ tasks'[o].sweep = tasks[o].sweep - 1

C26_IdleRoomPurged ==
    \A n \in RoomNames : (n \in Registered) ~> (n \notin Registered)

\* CloseServers has run on the room o: it has had its port and its listeners
\* are forgotten.
WasClosed(o) ==
    gs[o].Port # 0 /\ gs[o].TCPListener = "nil" /\ gs[o].UDPListener = "nil"

\* C29: closing is final: a room on which CloseServers has run and that is
\* not running has, as long as it lasts, no open listener again and is not
\* running again, whatever the monitor does and whatever begin_game arrives.
C29_CloseIsFinal ==
    [][\A o \in Objs :
          (WasClosed(o) /\ ~gs[o].Running /\ gs'[o].Port # 0) =>
             (~gs'[o].Running /\ gs'[o].TCPListener # "open" /\ gs'[o].UDPListener # "open")]_vars

\* What a caller of CloseServers finds when another caller has closed the
\* listeners and not yet forgotten them.
ClosedUnderneath(g) ==
    [g EXCEPT !.TCPListener = IF @ = "open" THEN "closed" ELSE @,
              !.UDPListener = IF @ = "open" THEN "closed" ELSE @]

C28_Twice ==
    \A o \in Objs :
       LET once == CloseServers(gs[o])
           late == ClosedUnderneath(gs[o])
       IN  /\ CloseServersErrors(gs[o]) = {}
           /\ CloseServers(once) = once
           /\ CloseServersErrors(once) = {}
           /\ ClosedTCP(once) \cup ClosedUDP(once) = {}
           /\ CloseServers(late) = once
           /\ CloseServersErrors(late) = {}
           /\ ClosedTCP(late) \cup ClosedUDP(late) = {}

\* A step of a task or of a handler that calls CloseServers on a room whose
\* listeners are closed leaves them closed, leaves Running false and gives
\* back no port.
C28_Step ==
    \A o \in Objs :
       (/\ WasClosed(o) /\ ~gs[o].Running /\ gs'[o].Port # 0
        /\ (ManagePlayers(o) \/ \E c \in Conns : Disconnect(c)))
       => /\ WasClosed(o)'
          /\ ~gs'[o].Running
          /\ UNCHANGED <<boundTCP, boundUDP>>

C31_Rest(g) ==
    [f \in (DOMAIN g) \ {"Buffer", "BufferSize", "BufferHealth"} |-> g[f]]

C32_Sent(d) == IF d = <<>> THEN {} ELSE {Entries(d)[k] : k \in 1..Len(Entries(d))}

\* One round of readPendingDatagrams: the input stored for a slot and a
\* counter stays stored and stays what it is; every entry of the reply
\* written carries the input stored for its slot and counter, which is the
\* one stored before the round when there was one; and two replies in a row
\* to the same slot agree on the counters they share.
C32_Step ==
    /\ \A i \in Slots : \A c \in Stored(i) :
          c \in DOMAIN inputs'[i] /\ inputs'[i][c] = inputs[i][c]
    /\ \A e \in C32_Sent(written') :
          LET i == written'[2]
              c == EntryCount(e)
          IN  /\ c \in DOMAIN inputs'[i]
              /\ EntryInput(e) = inputs'[i][c]
              /\ (c \in Stored(i)) => (EntryInput(e) = inputs[i][c])
    /\ \A e \in C32_Sent(written), f \in C32_Sent(written') :
          (written[2] = written'[2] /\ EntryCount(e) = EntryCount(f))
              => (EntryInput(e) = EntryInput(f))

\* C32: once the relay has sent an input for slot i at frame counter c in a
\* KeyInfoServer reply, every later reply with an entry for (i, c) carries
\* the same input word and plugin byte, whatever the spectator byte of the
\* request and whatever KeyInfoClient datagrams arrive in between: a sent
\* input is a stored one, a stored input is never replaced or removed, and
\* a reply carries the stored input.
C32_SameInput == [][C32_Step]_vars

\* A spectator's request for the frames from 0 on is answered with the
\* input that an earlier request of the player stored for frame 0, while a
\* KeyInfoClient datagram with another input, which came in between, is
\* still queued.
C32_Witness ==
    \E i \in Slots :
       /\ received = PlayerInputRequest(i, Zero32, 1)
       /\ written # <<>>
       /\ \E e \in C32_Sent(written) :
             /\ EntryCount(e) = Zero32
             /\ EntryInput(e) # <<Zero32, 0>>
             /\ buttons[i] # <<>>
             /\ Head(buttons[i]) # EntryInput(e)

\* ---------------------------------------------------------------------
\* C33.  What a get_rooms request lists.

\* The registry has a room under the name n that a request with the
\* emulator tag of m is to be told of.
C33_Listed(n, m) ==
    /\ GameServers[n] # 0
    /\ ~gs[GameServers[n]].Running
    /\ gs[GameServers[n]].Emulator = m.Emulator

\* The replies to the request m of connection c: one for each listed room,
\* with the fields of that room, and none for any other room.
C33_Lists ==
    \A c \in Conns, m \in GetRoomsInputs :
       (pc[c] = "read" /\ GetRoomsCheck(m) = Accepted) =>
          LET sent == GetRoomsSends(c, m)
          IN  /\ \A r \in sent :
                    /\ r.to = c /\ r.type = "reply_get_rooms" /\ r.accept = Accepted
                    /\ r.RoomName \in RoomNames
                    /\ C33_Listed(r.RoomName, m)
              /\ \A n \in RoomNames :
                    C33_Listed(n, m) =>
                       LET g == gs[GameServers[n]]
                       IN  /\ Cardinality({r \in sent : r.RoomName = n}) = 1
                           /\ \A r \in sent :
                                 (r.RoomName = n) =>
                                    /\ g.Name = n
                                    /\ r.port = g.Port
                                    /\ r.GameName = g.GameName
                                    /\ r.MD5 = g.MD5
                                    /\ r.PlayerName = g.PlayerName
                                    /\ r.Protected = (g.Password # "")
              /\ Cardinality(sent) = Cardinality({n \in RoomNames : C33_Listed(n, m)})

\* A get_rooms step changes no room and no entry of the registry.
C33_Step ==
    \A c \in Conns, m \in GetRoomsInputs :
       GetRooms(c, m) => (gs' = gs /\ GameServers' = GameServers /\ tasks' = tasks)

C34_StillRegistered(o) == \E n \in RoomNames : GameServers'[n] = o

\* A join of connection c is answered Accepted in this step: afterwards c
\* has one seat in the room it joined, under the name it asked for.
C34_Seated ==
    \A c \in Conns :
       (pc[c] = "join" /\ JoinRoomFinish(c)) =>
          SeatsOf(c, gs'[pending[c].g].Players)
             = {Seat(pending[c].PlayerName, pending[c].number, c)}

\* A seat of a connection stays in its room through every step in which the
\* connection does not close and the room stays in the registry.
C34_Kept ==
    \A c \in Conns, o \in Objs :
       (o \in Rooms /\ C34_StillRegistered(o) /\ pc'[c] # "closed") =>
          \A p \in SeatsOf(c, gs[o].Players) : p \in gs'[o].Players

\* C34: every connection that was answered Accepted(0) to its create_room or
\* join_room holds exactly one seat in that room, under its own player name
\* and socket, until the connection disconnects or the room is destroyed,
\* also when two join_room requests with the same player name, or for the
\* last free seat, are handled concurrently.
C34_OneSeatKept == [][C34_Seated /\ C34_Kept]_vars

\* The two halves of C34 on their own.
C34_OnlySeated == [][C34_Seated]_vars
C34_OnlyKept == [][C34_Kept]_vars
====
